---- MODULE Spec2Model ----
(***************************************************************************)
(* Model of github.com/dentech-floss/cache: the uniform Cache[T] contract  *)
(* and its three backends (memoryCache over ttlcache/v2, distributedCache  *)
(* and distributedGenericCache over go-redis/v9, noOpCache).               *)
(*                                                                         *)
(* The specifications share the variables:                                 *)
(*   SpecLocal   : one memoryCache handle                                  *)
(*   SpecNoOp    : one noOpCache handle                                    *)
(*   SpecDist    : distributed handles, data path                          *)
(*   SpecConn    : distributed handles, connection lifecycle               *)
(*   SpecFactory : the constructors, applied to a drawn configuration      *)
(*   Spec        : the backend is whichever Config.Type asked for          *)
(* Time is a discrete clock `now`; a time.Duration is a natural number of  *)
(* clock units, and 0 is the libraries' "no expiry" duration.              *)
(***************************************************************************)
EXTENDS Integers, Sequences, FiniteSets, TLC

\* ---------------------------------------------------------------- bounds
MaxTime == 2
MaxTTL == 1
MaxConns == 3
MaxHandles == 2
ReadChunk == 2    \* how many bytes one Read call asks for
MaxCloses == 2    \* how many times Close is called on one client
MaxCallers == 3   \* how many goroutines share the local handle

Keys == {"k1", "k2"}
TTLs == 0..MaxTTL

\* The element type T is a record of two strings (TestUser{ID, Name}).
Zero == [ID |-> "", Name |-> ""]
User1 == [ID |-> "123", Name |-> "John"]
User2 == [ID |-> "123", Name |-> ""]
Values == {User1, User2}
\* a record whose Name is not valid UTF-8 ("<ff>" stands for the byte 0xff)
BadUser == [ID |-> "123", Name |-> "<ff>"]

\* error values; NoErr is Go's nil error
NoErr == "nil"
ErrCanceled == "context canceled"
ErrClosed == "closed"
ErrNotFound == "key not found"
ErrNetwork == "network"
ErrConfigNil == "config cannot be nil"
ErrProtoKind == "protobuf serialization requires special handling - use NewDistributed"
ErrUnknownKind == "unknown serialization type"
ErrOtel == "instrumentation failed"
ErrInvalidUTF8 == "proto: string field contains invalid UTF-8"

VARIABLES
    arg,              \* the constructor call under study: entry point, Config, element type
    cfg,              \* the *DistributedConfig object the caller holds on to
    backend,          \* which backend the factory was asked for (Config.Type)
    now,              \* the wall clock
    items,            \* memoryCache.cache: ttlcache items, key -> item
    skipTTLExtension, \* memoryCache.cache: ttlcache skipTTLExtension flag
    isShutDown,       \* memoryCache.cache: ttlcache isShutDown flag
    lhist,            \* history: the most recent caller operation per key on the local handle
    noopSeen,         \* history: which operations the no-op handle has been asked so far
    callers,          \* goroutines sharing the local handle: where each is in its call
    passed,           \* history: the values those goroutines have passed to Set so far
    store,            \* the Redis/Valkey server: key -> entry
    reachable,        \* whether the server answers
    conns,            \* redis clients: id -> connection
    handles,          \* distributed cache handles: id -> handle
    dhist,            \* history: the most recent applied store operation per key
    res               \* the result the most recent call returned to its caller

vars == <<arg, cfg, backend, now, items, skipTTLExtension, isShutDown, lhist, noopSeen,
          callers, passed, store, reachable, conns, handles, dhist, res>>
localVars == <<items, skipTTLExtension, isShutDown, lhist, noopSeen, callers, passed>>
distVars == <<store, reachable, conns, handles, dhist>>

\* ---------------------------------------------------------------- results
\* What a call returned: which handle, which operation, its inputs and outputs.
\* b is the backend ("mem", "noop", "dist"), h the distributed handle (0 otherwise),
\* live whether the context passed was not cancelled. A local Get also records the
\* time of the call (at) and whether an earlier Get hit had already happened later
\* than the entry's Set (prior). A constructor records the dynamic type of the
\* Cache[T] it returned (handle, "" for nil); a distributed Get records why it
\* missed (cause: "fetch" or "decode").
Result(b, h, op, key, live, value, found, err) ==
    [b |-> b, h |-> h, op |-> op, key |-> key, live |-> live,
     at |-> 0, value |-> value, found |-> found, err |-> err, prior |-> FALSE,
     handle |-> "", cause |-> ""]

NoResult == [b |-> "", h |-> 0, op |-> "", key |-> "", live |-> TRUE,
             at |-> 0, value |-> Zero, found |-> FALSE, err |-> NoErr, prior |-> FALSE,
             handle |-> "", cause |-> ""]

\* select { case <-ctx.Done(): ... default: }: whether the context is already done
\* (a context is modelled by whether it is live)
ctxDoneNever(live) == FALSE

ctxDone(live) == ~live

\* A goroutine that shares the local handle: idle, or inside one call of Get,
\* Set or Delete: before the select on its context, before the call of the
\* engine, or about to return what the engine gave it.
NoOut == [value |-> Zero, found |-> FALSE, err |-> NoErr]
Idle == [pc |-> "idle", op |-> "", value |-> Zero, out |-> NoOut]

\* ---------------------------------------------------------------- clock
Tick ==
    /\ now < MaxTime
    /\ now' = now + 1
    /\ UNCHANGED <<arg, cfg, backend, localVars, distVars, res>>

\* ================================================================ memoryCache
NoItem == [present |-> FALSE, data |-> Zero, ttl |-> 0, expireAt |-> 0]
NoHist == [op |-> "none", value |-> Zero, at |-> 0, ttl |-> 0, hitLater |-> FALSE]

\* MemoryConfig values a caller can pass: nil, or a struct with the flag.
NilMemoryConfig == [isNil |-> TRUE, SkipTTLExtensionOnHit |-> FALSE]
MemoryConfigs == {NilMemoryConfig} \cup
    {[isNil |-> FALSE, SkipTTLExtensionOnHit |-> b] : b \in BOOLEAN}

\* NewMemory: the flag the engine is built with.
NewMemory(config) ==
    IF ~config.isNil THEN config.SkipTTLExtensionOnHit ELSE TRUE

\* (mutant) an item that never expires
expiredNever(item) == FALSE

\* ttlcache item.expired()
expired(item) ==
    IF item.ttl <= 0 THEN FALSE ELSE item.expireAt < now

\* (mutant) an expiry one clock unit too late
touchLate(item) ==
    IF item.ttl > 0 THEN [item EXCEPT !.expireAt = now + item.ttl + 1] ELSE item

\* ttlcache item.touch()
touch(item) ==
    IF item.ttl > 0 THEN [item EXCEPT !.expireAt = now + item.ttl] ELSE item

\* memoryCache.Get
MemGet(key, live) ==
    /\ IF ctxDone(live)
         THEN /\ res' = Result("mem", 0, "Get", key, live, Zero, FALSE, NoErr)
              /\ UNCHANGED <<items, lhist>>
       ELSE IF isShutDown \/ ~items[key].present \/ expired(items[key])
         THEN /\ res' = [Result("mem", 0, "Get", key, live, Zero, FALSE, NoErr)
                           EXCEPT !.at = now, !.prior = lhist[key].hitLater]
              /\ UNCHANGED <<items, lhist>>
       ELSE /\ res' = [Result("mem", 0, "Get", key, live, items[key].data, TRUE, NoErr)
                           EXCEPT !.at = now, !.prior = lhist[key].hitLater]
            /\ items' = IF skipTTLExtension THEN items
                        ELSE [items EXCEPT ![key] = touch(@)]
            /\ lhist' = [lhist EXCEPT ![key].hitLater =
                            @ \/ (lhist[key].ttl > 0 /\ now > lhist[key].at)]
    /\ UNCHANGED <<arg, callers, passed, cfg, backend, now, skipTTLExtension, isShutDown, noopSeen, distVars>>

\* (mutant) a SetWithTTL that keeps the item a key already has
SetWithTTLKeepFirst(key, value, ttl) ==
    IF items[key].present THEN items
    ELSE [items EXCEPT ![key] =
            touch([present |-> TRUE, data |-> value, ttl |-> ttl, expireAt |-> 0])]

\* ttlcache Cache.SetWithTTL, under the cache's mutex: the items after it
SetWithTTL(key, value, ttl) ==
    [items EXCEPT ![key] =
        touch([present |-> TRUE, data |-> value, ttl |-> ttl, expireAt |-> 0])]

\* memoryCache.Set
MemSet(key, value, ttl, live) ==
    /\ IF ctxDone(live)
         THEN /\ res' = Result("mem", 0, "Set", key, live, Zero, FALSE, ErrCanceled)
              /\ UNCHANGED <<items, lhist>>
       ELSE IF isShutDown
         THEN /\ res' = Result("mem", 0, "Set", key, live, Zero, FALSE, ErrClosed)
              /\ UNCHANGED <<items, lhist>>
       ELSE /\ res' = Result("mem", 0, "Set", key, live, Zero, FALSE, NoErr)
            /\ items' = SetWithTTL(key, value, ttl)
            /\ lhist' = [lhist EXCEPT ![key] =
                 [op |-> "set", value |-> value, at |-> IF ttl = 0 THEN 0 ELSE now,
                  ttl |-> ttl, hitLater |-> FALSE]]
    /\ UNCHANGED <<arg, callers, passed, cfg, backend, now, skipTTLExtension, isShutDown, noopSeen, distVars>>

\* ttlcache Cache.Remove: the error it returns
Remove(key) ==
    IF isShutDown THEN ErrClosed
    ELSE IF ~items[key].present THEN ErrNotFound
    ELSE NoErr

\* memoryCache.Delete
MemDelete(key, live) ==
    /\ IF ctxDone(live)
         THEN /\ res' = Result("mem", 0, "Delete", key, live, Zero, FALSE, ErrCanceled)
              /\ UNCHANGED <<items, lhist>>
       ELSE /\ res' = Result("mem", 0, "Delete", key, live, Zero, FALSE, Remove(key))
            /\ items' = IF Remove(key) = NoErr
                        THEN [items EXCEPT ![key] = NoItem] ELSE items
            /\ lhist' = [lhist EXCEPT ![key] =
                 [op |-> "del", value |-> Zero, at |-> 0, ttl |-> 0, hitLater |-> FALSE]]
    /\ UNCHANGED <<arg, callers, passed, cfg, backend, now, skipTTLExtension, isShutDown, noopSeen, distVars>>

\* memoryCache.Close
MemClose ==
    /\ IF ~isShutDown
         THEN /\ isShutDown' = TRUE
              /\ items' = [k \in Keys |-> NoItem]
              /\ res' = Result("mem", 0, "Close", "", TRUE, Zero, FALSE, NoErr)
       ELSE /\ res' = Result("mem", 0, "Close", "", TRUE, Zero, FALSE, ErrClosed)
            /\ UNCHANGED <<items, isShutDown>>
    /\ UNCHANGED <<arg, callers, passed, cfg, backend, now, skipTTLExtension, lhist, noopSeen, distVars>>

\* ttlcache's expiration goroutine evicts an expired item
Evict(key) ==
    /\ ~isShutDown
    /\ items[key].present
    /\ expired(items[key])
    /\ items' = [items EXCEPT ![key] = NoItem]
    /\ UNCHANGED <<arg, callers, passed, cfg, backend, now, skipTTLExtension, isShutDown, lhist, noopSeen, distVars, res>>

\* ---------------------------------------------------------------- goroutines
\* goroutine p calls Get, Set (with a value, without TTL) or Delete on the
\* shared handle, with context.Background()
GoCall(p, op, value) ==
    /\ callers[p].pc = "idle"
    /\ callers' = [callers EXCEPT ![p] =
                      [pc |-> "select", op |-> op, value |-> value, out |-> NoOut]]
    /\ passed' = IF op = "Set" THEN passed \cup {value} ELSE passed
    /\ UNCHANGED <<arg, cfg, backend, now, items, skipTTLExtension, isShutDown, lhist,
                   noopSeen, distVars, res>>

\* the select on ctx.Done() at the top of Get, Set and Delete
GoSelect(p) ==
    /\ callers[p].pc = "select"
    /\ callers' = [callers EXCEPT ![p] =
          IF ctxDone(TRUE)
            THEN [@ EXCEPT !.pc = "return",
                           !.out = [NoOut EXCEPT !.err =
                                      IF callers[p].op = "Get" THEN NoErr ELSE ErrCanceled]]
          ELSE [@ EXCEPT !.pc = "engine"]]
    /\ UNCHANGED <<arg, cfg, backend, now, items, skipTTLExtension, isShutDown, lhist,
                   noopSeen, passed, distVars, res>>

\* c.cache.Get(key), c.cache.SetWithTTL(key, value, ttl), c.cache.Remove(key):
\* one call of the engine, which runs under the engine's mutex
GoEngine(p, key) ==
    /\ callers[p].pc = "engine"
    /\ LET op == callers[p].op
           hit == ~isShutDown /\ items[key].present /\ ~expired(items[key])
       IN  /\ callers' = [callers EXCEPT ![p] = [@ EXCEPT !.pc = "return", !.out =
                 IF op = "Get"
                   THEN IF hit THEN [value |-> items[key].data, found |-> TRUE, err |-> NoErr]
                        ELSE NoOut
                 ELSE IF op = "Set"
                   THEN [NoOut EXCEPT !.err = IF isShutDown THEN ErrClosed ELSE NoErr]
                 ELSE [NoOut EXCEPT !.err = Remove(key)]]]
           /\ items' =
                 IF op = "Get"
                   THEN IF hit /\ ~skipTTLExtension
                          THEN [items EXCEPT ![key] = touch(@)] ELSE items
                 ELSE IF op = "Set"
                   THEN IF isShutDown THEN items
                        ELSE SetWithTTL(key, callers[p].value, 0)
                 ELSE IF Remove(key) = NoErr
                   THEN [items EXCEPT ![key] = NoItem] ELSE items
           /\ lhist' =
                 IF op = "Set" /\ ~isShutDown
                   THEN [lhist EXCEPT ![key] =
                           [op |-> "set", value |-> callers[p].value, at |-> 0,
                            ttl |-> 0, hitLater |-> FALSE]]
                 ELSE IF op = "Delete"
                   THEN [lhist EXCEPT ![key] =
                           [op |-> "del", value |-> Zero, at |-> 0, ttl |-> 0,
                            hitLater |-> FALSE]]
                 ELSE lhist
    /\ UNCHANGED <<arg, cfg, backend, now, skipTTLExtension, isShutDown, noopSeen,
                   passed, distVars, res>>

\* the call returns to the goroutine (Get after its assertion value.(T))
GoReturn(p) ==
    /\ callers[p].pc = "return"
    /\ callers' = [callers EXCEPT ![p] = Idle]
    /\ UNCHANGED <<arg, cfg, backend, now, items, skipTTLExtension, isShutDown, lhist,
                   noopSeen, passed, distVars, res>>

\* ================================================================ noOpCache
\* (mutant) a no-op Get that reports a hit
noOpGetHit(key) == [value |-> User1, found |-> TRUE]

\* noOpCache.Get, Set, Delete, Close: what each returns
noOpGet(key) == [value |-> Zero, found |-> FALSE]
noOpSet(key, value, ttl) == NoErr
noOpDelete(key) == NoErr
noOpClose == NoErr

NoOpGet(key, live) ==
    /\ res' = Result("noop", 0, "Get", key, live, noOpGet(key).value, noOpGet(key).found, NoErr)
    /\ UNCHANGED <<arg, cfg, backend, now, localVars, distVars>>

NoOpSet(key, value, ttl, live) ==
    /\ res' = Result("noop", 0, "Set", key, live, value, FALSE, noOpSet(key, value, ttl))
    /\ noopSeen' = noopSeen \cup {<<"Set", key>>}
    /\ UNCHANGED <<arg, callers, passed, cfg, backend, now, items, skipTTLExtension, isShutDown, lhist, distVars>>

NoOpDelete(key, live) ==
    /\ res' = Result("noop", 0, "Delete", key, live, Zero, FALSE, noOpDelete(key))
    /\ UNCHANGED <<arg, cfg, backend, now, localVars, distVars>>

NoOpClose ==
    /\ res' = Result("noop", 0, "Close", "", TRUE, Zero, FALSE, noOpClose)
    /\ noopSeen' = noopSeen \cup {<<"Close", "">>}
    /\ UNCHANGED <<arg, callers, passed, cfg, backend, now, items, skipTTLExtension, isShutDown, lhist, distVars>>

\* ================================================================ serializers
DecodeError == [err |-> TRUE, value |-> Zero]
Decoded(id, name) == [err |-> FALSE, value |-> [ID |-> id, Name |-> name]]
\* a decode that failed after it had filled some fields of the target
Partial(id, name) == [err |-> TRUE, value |-> [ID |-> id, Name |-> name]]

\* json.Marshal coerces a string to valid UTF-8: an invalid byte becomes U+FFFD
toValidUTF8(str) == IF str = "<ff>" THEN "<fffd>" ELSE str

\* encoding/json: an object with every field, in declaration order
JSONSerialize(v) == <<"{", "ID", toValidUTF8(v.ID), "Name", toValidUTF8(v.Name), "}">>

\* json.Unmarshal: a syntax error leaves the target alone; a value of the wrong
\* JSON type for a field ("#5" stands for a number) is reported after the other
\* fields were filled in
JSONDeserialize(data) ==
    IF /\ Len(data) = 6
       /\ data[1] = "{" /\ data[2] = "ID" /\ data[4] = "Name" /\ data[6] = "}"
    THEN IF data[5] = "#5" THEN Partial(data[3], "") ELSE Decoded(data[3], data[5])
    ELSE DecodeError

\* A field list that leaves out zero-valued fields (gob and proto3 both do).
fields(v, tagID, tagName) ==
    (IF v.ID # "" THEN <<tagID, v.ID>> ELSE <<>>) \o
    (IF v.Name # "" THEN <<tagName, v.Name>> ELSE <<>>)

parseFields(body, tagID, tagName) ==
    IF Len(body) = 0 THEN Decoded("", "")
    ELSE IF Len(body) = 2 /\ body[1] = tagID THEN Decoded(body[2], "")
    ELSE IF Len(body) = 2 /\ body[1] = tagName THEN Decoded("", body[2])
    ELSE IF Len(body) = 4 /\ body[1] = tagID /\ body[3] = tagName
        THEN Decoded(body[2], body[4])
    ELSE DecodeError

\* (mutant) an encoder that drops the second field
GobSerializeShort(v) == <<"gob:TestUser">> \o fields([v EXCEPT !.Name = ""], "ID", "Name")

\* (mutant) a Read that loses the byte after the ones it copied
gobBufferReadSkip(data, n) ==
    LET k == IF Len(data) < n THEN Len(data) ELSE n
    IN [p |-> SubSeq(data, 1, k), data |-> SubSeq(data, k + 2, Len(data)),
        eof |-> Len(data) = 0]

\* gobBuffer.Write: the buffer after appending p
gobBufferWrite(data, p) == data \o p

\* gobBuffer.Read into a slice of length n: the bytes copied, the buffer left,
\* and whether it reported io.EOF
gobBufferRead(data, n) ==
    LET k == IF Len(data) < n THEN Len(data) ELSE n
    IN [p |-> SubSeq(data, 1, k), data |-> SubSeq(data, k + 1, Len(data)),
        eof |-> Len(data) = 0]

\* what the gob decoder has read from the buffer once it reports io.EOF
RECURSIVE gobReadAll(_)
gobReadAll(data) ==
    LET r == gobBufferRead(data, ReadChunk)
    IN IF r.eof THEN <<>> ELSE r.p \o gobReadAll(r.data)

\* encoding/gob through gobBuffer: one message with the type descriptor, one
\* with the non-zero fields by name
GobSerialize(v) ==
    gobBufferWrite(gobBufferWrite(<<>>, <<"gob:TestUser">>), fields(v, "ID", "Name"))

GobDeserialize(data) ==
    LET read == gobReadAll(data)
    IN IF Len(read) = 0 \/ read[1] # "gob:TestUser" THEN DecodeError
       ELSE parseFields(Tail(read), "ID", "Name")

\* proto.Marshal / proto.Unmarshal: the non-zero fields by field number; the
\* wire format has no header, so the zero message is the empty byte string
protoMarshal(v) == fields(v, "1", "2")

\* proto.Marshal refuses a string field that is not valid UTF-8
protoMarshalErr(v) ==
    IF v.ID = "<ff>" \/ v.Name = "<ff>" THEN ErrInvalidUTF8 ELSE NoErr

protoUnmarshal(data) == parseFields(data, "1", "2")

\* Caller-supplied Serializer implementations (DistributedConfig.Serializer):
\* "reverse" writes the fields in the other order and reads them back;
\* "lossy" writes the ID only, so its Deserialize cannot restore the Name.
CustomSerializers == {"reverse", "lossy"}

Serialize(ser, v) ==
    CASE ser = "json" -> JSONSerialize(v)
      [] ser = "gob" -> GobSerialize(v)
      [] ser = "reverse" -> <<"custom", v.Name, v.ID>>
      [] ser = "lossy" -> <<"{", "ID", v.ID, "}">>

Deserialize(ser, data) ==
    CASE ser = "json" -> JSONDeserialize(data)
      [] ser = "gob" -> GobDeserialize(data)
      [] ser = "reverse" ->
            IF Len(data) = 3 /\ data[1] = "custom" THEN Decoded(data[3], data[2])
            ELSE DecodeError
      [] ser = "lossy" ->
            IF Len(data) = 4 /\ data[1] = "{" /\ data[2] = "ID" /\ data[4] = "}"
            THEN Decoded(data[3], "")
            ELSE DecodeError

\* (mutant) a NewSerializer that falls back to JSON
NewSerializerLax(serializationType) ==
    CASE serializationType = "gob" -> [serializer |-> "gob", err |-> NoErr]
      [] serializationType = "protobuf" -> [serializer |-> "", err |-> ErrProtoKind]
      [] OTHER -> [serializer |-> "json", err |-> NoErr]

\* NewSerializer
NewSerializer(serializationType) ==
    CASE serializationType = "json" -> [serializer |-> "json", err |-> NoErr]
      [] serializationType = "gob" -> [serializer |-> "gob", err |-> NoErr]
      [] serializationType = "protobuf" -> [serializer |-> "", err |-> ErrProtoKind]
      [] OTHER -> [serializer |-> "", err |-> ErrUnknownKind]

\* ================================================================ distributed state
SharedClient == 1   \* the redis client the caller created and may pass as Config.Client
NoEntry == [present |-> FALSE, data |-> <<>>, ttl |-> 0, expireAt |-> 0]
\* A redis client: its redis.Options (durations in seconds), the timeout of the
\* context its constructor probed it with and how the probe ended ("" while not
\* probed), and how many times its Close method was called.
NoOptions == [PoolSize |-> 0, MinIdleConns |-> 0, MaxRetries |-> 0,
              DialTimeout |-> 0, ReadTimeout |-> 0, WriteTimeout |-> 0]
NoConn == [state |-> "none", tracing |-> FALSE, metrics |-> FALSE,
           options |-> NoOptions, probeTimeout |-> 0, probe |-> "", closeCalls |-> 0]
OpenConn == [state |-> "open", tracing |-> FALSE, metrics |-> FALSE,
             options |-> NoOptions, probeTimeout |-> 0, probe |-> "", closeCalls |-> 0]
NoHandle == [kind |-> "none", client |-> 0, serializer |-> "", cfgClient |-> 0,
             closeCalled |-> FALSE]
NoDHist == [op |-> "none", value |-> Zero, at |-> 0, ttl |-> 0, by |-> 0]

\* DistributedConfig values a caller can pass (Client 0 is a nil Client,
\* Serializer "" a nil Serializer, SerializationType "" the unset kind).
NilDistributedConfig ==
    [isNil |-> TRUE, Addr |-> "", Client |-> 0, EnableTracing |-> FALSE,
     EnableMetrics |-> FALSE, SerializationType |-> "", Serializer |-> "",
     PoolSize |-> 0, MinIdleConns |-> 0, MaxRetries |-> 0,
     DialTimeout |-> 0, ReadTimeout |-> 0, WriteTimeout |-> 0]
SerializationTypes == {"", "json", "gob", "protobuf", "invalid"}

\* The configurations of the data-path runs: every serializer choice, on a
\* server that answers, with a connection of the handle's own.
DataConfigs == {NilDistributedConfig} \cup
    [isNil : {FALSE}, Addr : {"store"}, Client : {0},
     EnableTracing : {FALSE}, EnableMetrics : {FALSE},
     SerializationType : SerializationTypes,
     Serializer : {""} \cup CustomSerializers,
     PoolSize : {0}, MinIdleConns : {0}, MaxRetries : {0},
     DialTimeout : {0}, ReadTimeout : {0}, WriteTimeout : {0}]

\* The configurations of the connection-lifecycle runs: every choice of address,
\* supplied client and instrumentation, with the JSON serializer.
ConnConfigs == {NilDistributedConfig} \cup
    [isNil : {FALSE}, Addr : {"store", "invalid"}, Client : {0, SharedClient},
     EnableTracing : BOOLEAN, EnableMetrics : BOOLEAN,
     SerializationType : {"json"}, Serializer : {""},
     PoolSize : {0}, MinIdleConns : {0}, MaxRetries : {0},
     DialTimeout : {0}, ReadTimeout : {0}, WriteTimeout : {0}]

\* the server drops a key once its expiry time has passed
alive(entry) ==
    entry.present /\ (entry.ttl = 0 \/ now <= entry.expireAt)

\* go-redis: the error of a command issued on client c
redisErr(c, live) ==
    IF conns[c].state # "open" THEN ErrClosed
    ELSE IF ~live THEN ErrCanceled
    ELSE IF ~reachable THEN ErrNetwork
    ELSE NoErr

\* the slot of the next handle and of the next client
freeHandles == {h \in 1..MaxHandles : handles[h].kind = "none"}
freeConns == {c \in 1..MaxConns : conns[c].state = "none"}
Min(S) == CHOOSE x \in S : \A y \in S : x <= y

\* (mutant) a constructor that adopts the supplied client as its own
redisNewClientAdopt(config, fresh) ==
    IF config.Client # 0 THEN config.Client ELSE fresh

\* (mutant) a DEL that reports an absent key as an error
redisDelStrict(c, key, live) ==
    IF redisErr(c, live) = NoErr /\ ~alive(store[key]) THEN ErrNotFound
    ELSE redisErr(c, live)

\* the defaults the constructors fill in (durations in seconds)
DefaultPoolSize == 10
DefaultMinIdleConns == 5
DefaultMaxRetries == 3
DefaultDialTimeout == 5
DefaultReadTimeout == 3
DefaultWriteTimeout == 3

\* (mutant) defaults that leave the dial timeout unset
setDefaultsNoDial(config) ==
    [PoolSize |-> IF config.PoolSize = 0 THEN DefaultPoolSize ELSE config.PoolSize,
     MinIdleConns |-> IF config.MinIdleConns = 0 THEN DefaultMinIdleConns
                      ELSE config.MinIdleConns,
     MaxRetries |-> IF config.MaxRetries = 0 THEN DefaultMaxRetries ELSE config.MaxRetries,
     DialTimeout |-> config.DialTimeout,
     ReadTimeout |-> IF config.ReadTimeout = 0 THEN DefaultReadTimeout
                     ELSE config.ReadTimeout,
     WriteTimeout |-> IF config.WriteTimeout = 0 THEN DefaultWriteTimeout
                      ELSE config.WriteTimeout]

\* "Set defaults" in the constructors: the six fields as redis.NewClient gets them
setDefaults(config) ==
    [PoolSize |-> IF config.PoolSize = 0 THEN DefaultPoolSize ELSE config.PoolSize,
     MinIdleConns |-> IF config.MinIdleConns = 0 THEN DefaultMinIdleConns
                      ELSE config.MinIdleConns,
     MaxRetries |-> IF config.MaxRetries = 0 THEN DefaultMaxRetries ELSE config.MaxRetries,
     DialTimeout |-> IF config.DialTimeout = 0 THEN DefaultDialTimeout
                     ELSE config.DialTimeout,
     ReadTimeout |-> IF config.ReadTimeout = 0 THEN DefaultReadTimeout
                     ELSE config.ReadTimeout,
     WriteTimeout |-> IF config.WriteTimeout = 0 THEN DefaultWriteTimeout
                      ELSE config.WriteTimeout]

\* (mutant) defaulting that also writes the serialization kind
defaultedKind(config) ==
    [config EXCEPT !.PoolSize = setDefaults(config).PoolSize,
                   !.MinIdleConns = setDefaults(config).MinIdleConns,
                   !.MaxRetries = setDefaults(config).MaxRetries,
                   !.DialTimeout = setDefaults(config).DialTimeout,
                   !.ReadTimeout = setDefaults(config).ReadTimeout,
                   !.WriteTimeout = setDefaults(config).WriteTimeout,
                   !.SerializationType = IF @ = "" THEN "json" ELSE @]

\* "Set defaults" assigns to the fields of *config: the object after it
defaulted(config) ==
    [config EXCEPT !.PoolSize = setDefaults(config).PoolSize,
                   !.MinIdleConns = setDefaults(config).MinIdleConns,
                   !.MaxRetries = setDefaults(config).MaxRetries,
                   !.DialTimeout = setDefaults(config).DialTimeout,
                   !.ReadTimeout = setDefaults(config).ReadTimeout,
                   !.WriteTimeout = setDefaults(config).WriteTimeout]

\* What the object the caller holds on to contains after a constructor was given
\* config: the constructor writes through the pointer, so the caller sees the
\* defaults when the object it passed is the one it holds; a nil config is
\* returned on before "Set defaults".
written(config) ==
    IF config = cfg /\ ~config.isNil THEN defaulted(config) ELSE cfg

\* redis.NewClient(&redis.Options{...}) in the constructors: the client the
\* handle will use, given the configuration and the next unused client
redisNewClient(config, fresh) == fresh

\* go-redis DEL on client c: deleting an absent key is no error
redisDel(c, key, live) == redisErr(c, live)

\* The constructors from redis.NewClient on: instrument, probe, build the handle.
\* otel is which instrumentation call fails ("" for none).
\* (mutant) a probe that always succeeds
redisPingOk(addr, state) == NoErr

\* client.Ping(ctx).Err() in a constructor: the probe of the new client,
\* which fails when nothing answers at the configured address
redisPing(addr, state) ==
    IF addr = "store" /\ reachable /\ state = "open" THEN NoErr ELSE ErrNetwork

Provision(h, config, kind, serializer, otel) ==
    LET fresh == Min(freeConns)
        client == redisNewClient(config, fresh)
        instrument == config.EnableTracing \/ config.EnableMetrics
        created == IF client = fresh
                   THEN [conns EXCEPT ![fresh] =
                           [OpenConn EXCEPT !.options = setDefaults(config)]]
                   ELSE conns
        instrumented == IF instrument
                        THEN [created EXCEPT ![client].tracing = TRUE,
                                             ![client].metrics = TRUE]
                        ELSE created
        \* context.WithTimeout(context.Background(), config.DialTimeout)
        probe == redisPing(config.Addr, created[client].state)
        probed == [instrumented EXCEPT
                      ![client].probeTimeout = setDefaults(config).DialTimeout,
                      ![client].probe = IF probe = NoErr THEN "ok" ELSE "failed"]
    IN  /\ freeConns # {}
        /\ IF instrument /\ otel # ""
             THEN /\ conns' = IF otel = "metrics"
                               THEN [created EXCEPT ![client].tracing = TRUE]
                             ELSE created
                  /\ res' = Result("dist", h, "New", "", TRUE, Zero, FALSE, ErrOtel)
                  /\ UNCHANGED handles
           ELSE IF probe # NoErr
             THEN /\ conns' = probed
                  /\ res' = Result("dist", h, "New", "", TRUE, Zero, FALSE, probe)
                  /\ UNCHANGED handles
           ELSE /\ conns' = probed
                /\ res' = [Result("dist", h, "New", "", TRUE, Zero, FALSE, NoErr)
                              EXCEPT !.handle = kind]
                /\ handles' = [handles EXCEPT ![h] =
                      [kind |-> kind, client |-> client, serializer |-> serializer,
                       cfgClient |-> config.Client, closeCalled |-> FALSE]]

\* (mutant) a resolution that asks for the named kind before the custom serializer
setUpSerializationNamedFirst(config) ==
    IF config.SerializationType # ""
    THEN NewSerializer(config.SerializationType)
    ELSE IF config.Serializer # ""
    THEN [serializer |-> config.Serializer, err |-> NoErr]
    ELSE NewSerializer("json")

\* "Set up serialization" in NewDistributedGeneric: the serializer, or the error
setUpSerialization(config) ==
    IF config.Serializer # ""
    THEN [serializer |-> config.Serializer, err |-> NoErr]
    ELSE NewSerializer(IF config.SerializationType = ""
                       THEN "json" ELSE config.SerializationType)

\* (mutant) a constructor that creates its client before it sets up serialization
NewDistributedGenericDialFirst(config, otel) ==
    /\ freeHandles # {}
    /\ LET h == Min(freeHandles)
           chosen == setUpSerialization(config)
       IN IF config.isNil
            THEN /\ res' = Result("dist", h, "New", "", TRUE, Zero, FALSE, ErrConfigNil)
                 /\ UNCHANGED <<conns, handles>>
          ELSE IF chosen.err # NoErr
            THEN /\ freeConns # {}
                 /\ res' = Result("dist", h, "New", "", TRUE, Zero, FALSE, chosen.err)
                 /\ conns' = [conns EXCEPT ![Min(freeConns)] =
                                 [OpenConn EXCEPT !.options = setDefaults(config)]]
                 /\ UNCHANGED handles
          ELSE Provision(h, config, "generic", chosen.serializer, otel)
    /\ cfg' = written(config)
    /\ UNCHANGED <<arg, backend, now, localVars, store, reachable, dhist>>

\* NewDistributedGeneric
NewDistributedGeneric(config, otel) ==
    /\ freeHandles # {}
    /\ LET h == Min(freeHandles)
           chosen == setUpSerialization(config)
       IN IF config.isNil
            THEN /\ res' = Result("dist", h, "New", "", TRUE, Zero, FALSE, ErrConfigNil)
                 /\ UNCHANGED <<conns, handles>>
          ELSE IF chosen.err # NoErr
            THEN /\ res' = Result("dist", h, "New", "", TRUE, Zero, FALSE, chosen.err)
                 /\ UNCHANGED <<conns, handles>>
          ELSE Provision(h, config, "generic", chosen.serializer, otel)
    /\ cfg' = written(config)
    /\ UNCHANGED <<arg, backend, now, localVars, store, reachable, dhist>>

\* NewDistributedForProto (NewDistributed calls it)
NewDistributedForProto(config, otel) ==
    /\ freeHandles # {}
    /\ LET h == Min(freeHandles)
       IN IF config.isNil
            THEN /\ res' = Result("dist", h, "New", "", TRUE, Zero, FALSE, ErrConfigNil)
                 /\ UNCHANGED <<conns, handles>>
          ELSE Provision(h, config, "proto", "", otel)
    /\ cfg' = written(config)
    /\ UNCHANGED <<arg, backend, now, localVars, store, reachable, dhist>>

\* createDistributedCacheForProto (the factory calls it)
createDistributedCacheForProto(config, otel) ==
    /\ freeHandles # {}
    /\ LET h == Min(freeHandles)
       IN IF config.isNil
            THEN /\ res' = Result("dist", h, "New", "", TRUE, Zero, FALSE, ErrConfigNil)
                 /\ UNCHANGED <<conns, handles>>
          ELSE Provision(h, config, "proto", "", otel)
    /\ cfg' = written(config)
    /\ UNCHANGED <<arg, backend, now, localVars, store, reachable, dhist>>

\* ---------------------------------------------------------------- handle methods
\* (mutant) a handle that always writes with the message codec
encodeProto(h, value) == protoMarshal(value)

\* the bytes a handle writes for a value, and what it reads back from bytes
encode(h, value) ==
    IF handles[h].kind = "proto" THEN protoMarshal(value)
    ELSE Serialize(handles[h].serializer, value)

decode(h, data) ==
    IF handles[h].kind = "proto" THEN protoUnmarshal(data)
    ELSE Deserialize(handles[h].serializer, data)

\* the error of that encoding: proto.Marshal's; the serializers of the model
\* (json.Marshal and gob of a record of strings, the custom ones) return none
encodeErr(h, value) ==
    IF handles[h].kind = "proto" THEN protoMarshalErr(value) ELSE NoErr

\* (mutant) a store write that puts the entry under every key
redisSetAll(key, entry) == [k \in Keys |-> entry]

\* go-redis SET key data ttl: the store after it
redisSet(key, entry) == [store EXCEPT ![key] = entry]

\* (mutant) a Set that goes on to write when encoding failed
distSetErrNoEncode(h, value, live) == redisErr(handles[h].client, live)

\* distributedCache.Set and distributedGenericCache.Set: the error returned by a
\* handle that has a client
distSetErr(h, value, live) ==
    IF encodeErr(h, value) # NoErr THEN encodeErr(h, value)
    ELSE redisErr(handles[h].client, live)

\* (mutant) a Get that does not treat the server's "no such key" as a miss
distGetNoNil(h, key, live) ==
    IF redisErr(handles[h].client, live) # NoErr
        THEN [value |-> Zero, found |-> FALSE, cause |-> "fetch"]
    ELSE IF decode(h, store[key].data).err
        THEN [value |-> Zero, found |-> FALSE, cause |-> "decode"]
    ELSE [value |-> decode(h, store[key].data).value, found |-> TRUE, cause |-> ""]

\* (mutant) a Get that hands out what a failed decode left in the target
distGetPartial(h, key, live) ==
    IF handles[h].client = 0 THEN [value |-> Zero, found |-> FALSE, cause |-> "fetch"]
    ELSE IF redisErr(handles[h].client, live) # NoErr \/ ~alive(store[key])
        THEN [value |-> Zero, found |-> FALSE, cause |-> "fetch"]
    ELSE IF decode(h, store[key].data).err
        THEN [value |-> decode(h, store[key].data).value, found |-> FALSE,
              cause |-> "decode"]
    ELSE [value |-> decode(h, store[key].data).value, found |-> TRUE, cause |-> ""]

\* distributedCache.Get and distributedGenericCache.Get: the (value, found) pair
\* and which early return a miss took
distGet(h, key, live) ==
    IF handles[h].client = 0 THEN [value |-> Zero, found |-> FALSE, cause |-> "fetch"]
    ELSE IF redisErr(handles[h].client, live) # NoErr \/ ~alive(store[key])
        THEN [value |-> Zero, found |-> FALSE, cause |-> "fetch"]
    ELSE IF decode(h, store[key].data).err
        THEN [value |-> Zero, found |-> FALSE, cause |-> "decode"]
    ELSE [value |-> decode(h, store[key].data).value, found |-> TRUE, cause |-> ""]

DGet(h, key, live) ==
    /\ handles[h].kind # "none"
    /\ res' = [Result("dist", h, "Get", key, live,
                      distGet(h, key, live).value, distGet(h, key, live).found, NoErr)
                 EXCEPT !.cause = distGet(h, key, live).cause]
    /\ UNCHANGED <<arg, cfg, backend, now, localVars, distVars>>

\* distributedCache.Set and distributedGenericCache.Set
DSet(h, key, value, ttl, live) ==
    /\ handles[h].kind # "none"
    /\ LET err == IF handles[h].client = 0 THEN NoErr
                  ELSE distSetErr(h, value, live)
       IN /\ res' = Result("dist", h, "Set", key, live, value, FALSE, err)
          /\ IF handles[h].client # 0 /\ err = NoErr
               THEN /\ store' = redisSet(key,
                          [present |-> TRUE, data |-> encode(h, value), ttl |-> ttl,
                           expireAt |-> IF ttl = 0 THEN 0 ELSE now + ttl])
                    /\ dhist' = [dhist EXCEPT ![key] =
                          [op |-> "set", value |-> value, at |-> IF ttl = 0 THEN 0 ELSE now,
                           ttl |-> ttl, by |-> h]]
             ELSE UNCHANGED <<store, dhist>>
    /\ UNCHANGED <<arg, cfg, backend, now, localVars, reachable, conns, handles>>

\* distributedCache.Delete and distributedGenericCache.Delete
\* (the result's found records whether the key was there when Delete was called)
DDelete(h, key, live) ==
    /\ handles[h].kind # "none"
    /\ LET err == IF handles[h].client = 0 THEN NoErr
                  ELSE redisDel(handles[h].client, key, live)
       IN /\ res' = Result("dist", h, "Delete", key, live, Zero, alive(store[key]), err)
          /\ IF handles[h].client # 0 /\ err = NoErr
               THEN /\ store' = [store EXCEPT ![key] = NoEntry]
                    /\ dhist' = [dhist EXCEPT ![key] =
                          [op |-> "del", value |-> Zero, at |-> 0, ttl |-> 0, by |-> 0]]
             ELSE UNCHANGED <<store, dhist>>
    /\ UNCHANGED <<arg, cfg, backend, now, localVars, reachable, conns, handles>>

\* (mutant) a Close that leaves the client open
closesNothing(h) == 0

\* distributedCache.Close and distributedGenericCache.Close: the client they close
\* (0 for none)
closes(h) == IF handles[h].client # 0 THEN handles[h].client ELSE 0

DClose(h) ==
    /\ handles[h].kind # "none"
    /\ LET c == closes(h)
       IN IF c = 0
            THEN /\ res' = Result("dist", h, "Close", "", TRUE, Zero, FALSE, NoErr)
                 /\ UNCHANGED conns
          ELSE /\ conns[c].closeCalls < MaxCloses
               /\ res' = Result("dist", h, "Close", "", TRUE, Zero, FALSE,
                                IF conns[c].state = "open" THEN NoErr ELSE ErrClosed)
               /\ conns' = [conns EXCEPT ![c].state = "closed",
                                         ![c].closeCalls = @ + 1]
    /\ handles' = [handles EXCEPT ![h].closeCalled = TRUE]
    /\ UNCHANGED <<arg, cfg, backend, now, localVars, store, reachable, dhist>>

\* distributedCache.Ping and distributedGenericCache.Ping
DPing(h, live) ==
    /\ handles[h].kind # "none"
    /\ res' = Result("dist", h, "Ping", "", live, Zero, FALSE,
                     IF handles[h].client = 0 THEN NoErr
                     ELSE redisErr(handles[h].client, live))
    /\ UNCHANGED <<arg, cfg, backend, now, localVars, distVars>>

\* the caller probes its own shared client (sharedClient.Ping)
SharedPing ==
    /\ res' = Result("dist", 0, "Ping", "", TRUE, Zero, FALSE, redisErr(SharedClient, TRUE))
    /\ UNCHANGED <<arg, cfg, backend, now, localVars, distVars>>

\* bytes another program stored under a key of the same server: JSON of a
\* record whose Name is a number
ForeignData == {<<"{", "ID", "123", "Name", "#5", "}">>}

ForeignWrite(key, data) ==
    /\ reachable
    /\ store' = [store EXCEPT ![key] =
                    [present |-> TRUE, data |-> data, ttl |-> 0, expireAt |-> 0]]
    /\ dhist' = [dhist EXCEPT ![key] =
                    [op |-> "foreign", value |-> Zero, at |-> 0, ttl |-> 0, by |-> 0]]
    /\ UNCHANGED <<arg, cfg, backend, now, localVars, reachable, conns, handles, res>>

\* the server or the network goes down, or comes back
Outage ==
    /\ reachable' = ~reachable
    /\ UNCHANGED <<arg, cfg, backend, now, localVars, store, conns, handles, dhist, res>>

\* ================================================================ factory
\* Config values a caller can pass to New. Type is the CacheType string.
CacheTypes == {"memory", "distributed", "noop", "", "redis"}
NilConfig == [isNil |-> TRUE, Type |-> "", Memory |-> NilMemoryConfig,
              Distributed |-> NilDistributedConfig]

\* distributed configurations that set some of the six pool and timeout fields
OptionConfigs ==
    [isNil : {FALSE}, Addr : {"store"}, Client : {0},
     EnableTracing : {FALSE}, EnableMetrics : {FALSE},
     SerializationType : {"json"}, Serializer : {""},
     PoolSize : {0, 20}, MinIdleConns : {0, 2}, MaxRetries : {0, 1},
     DialTimeout : {0, 1}, ReadTimeout : {0, 1}, WriteTimeout : {0, 1}]

\* distributed configurations that ask for tracing, for metrics, for both
InstrumentConfigs ==
    [isNil : {FALSE}, Addr : {"store"}, Client : {0},
     EnableTracing : BOOLEAN, EnableMetrics : BOOLEAN,
     SerializationType : {"json"}, Serializer : {""},
     PoolSize : {0}, MinIdleConns : {0}, MaxRetries : {0},
     DialTimeout : {0}, ReadTimeout : {0}, WriteTimeout : {0}]

DistributedConfigs == DataConfigs \cup OptionConfigs \cup InstrumentConfigs

Configs == {NilConfig} \cup
    [isNil : {FALSE}, Type : CacheTypes, Memory : MemoryConfigs,
     Distributed : {NilDistributedConfig}] \cup
    [isNil : {FALSE}, Type : {"distributed"}, Memory : {NilMemoryConfig},
     Distributed : DistributedConfigs]

\* The calls under study: the entry point, its configuration as the caller
\* filled it in (the direct constructors get the Distributed part, which is the
\* object cfg) and whether the element type T is a proto.Message. NewDistributed compiles for proto.Message types only.
NoArg == [entry |-> "", config |-> NilConfig, isProto |-> FALSE]
Args ==
    [entry : {"New"}, config : Configs, isProto : BOOLEAN] \cup
    [entry : {"NewDistributedGeneric"},
     config : [isNil : {FALSE}, Type : {"distributed"}, Memory : {NilMemoryConfig},
               Distributed : DistributedConfigs],
     isProto : BOOLEAN] \cup
    [entry : {"NewDistributed"},
     config : [isNil : {FALSE}, Type : {"distributed"}, Memory : {NilMemoryConfig},
               Distributed : DistributedConfigs],
     isProto : {TRUE}] \cup
    [entry : {"NewSerializer"},
     config : [isNil : {FALSE}, Type : {"distributed"}, Memory : {NilMemoryConfig},
               Distributed : {c \in DataConfigs : ~c.isNil /\ c.Serializer = ""}],
     isProto : {FALSE}]

\* (mutant) a detector that never recognises a message type
isProtoMessageNever(isProto) == FALSE

\* isProtoMessage(zero): whether the element type implements proto.Message
isProtoMessage(isProto) == isProto

\* (mutant) the error without the kind
ErrUnknownTypeBare(K) == "unknown cache type"

\* fmt.Errorf("unknown cache type: %s", config.Type)
ErrUnknownType(K) == "unknown cache type: " \o K

\* NewDistributed
NewDistributed(config, otel) == NewDistributedForProto(config, otel)

\* New
New(otel) ==
    IF arg.config.isNil
      THEN /\ res' = Result("", 0, "New", "", TRUE, Zero, FALSE, ErrConfigNil)
           /\ UNCHANGED <<arg, cfg, backend, now, localVars, distVars>>
    ELSE IF arg.config.Type = "memory"
      THEN /\ skipTTLExtension' = NewMemory(arg.config.Memory)
           /\ items' = [k \in Keys |-> NoItem]
           /\ isShutDown' = FALSE
           /\ res' = [Result("mem", 0, "New", "", TRUE, Zero, FALSE, NoErr)
                         EXCEPT !.handle = "memory"]
           /\ UNCHANGED <<arg, callers, passed, cfg, backend, now, lhist, noopSeen, distVars>>
    ELSE IF arg.config.Type = "distributed"
      THEN IF isProtoMessage(arg.isProto)
             THEN createDistributedCacheForProto(cfg, otel)
           ELSE NewDistributedGeneric(cfg, otel)
    ELSE IF arg.config.Type = "noop"
      THEN /\ res' = [Result("noop", 0, "New", "", TRUE, Zero, FALSE, NoErr)
                         EXCEPT !.handle = "noop"]
           /\ UNCHANGED <<arg, cfg, backend, now, localVars, distVars>>
    ELSE /\ res' = Result("", 0, "New", "", TRUE, Zero, FALSE,
                          ErrUnknownType(arg.config.Type))
         /\ UNCHANGED <<arg, cfg, backend, now, localVars, distVars>>

\* a caller asks NewSerializer for the configured kind
CallNewSerializer ==
    /\ res' = [Result("", 0, "NewSerializer", "", TRUE, Zero, FALSE,
                      NewSerializer(arg.config.Distributed.SerializationType).err)
                 EXCEPT !.handle =
                      NewSerializer(arg.config.Distributed.SerializationType).serializer]
    /\ UNCHANGED <<arg, cfg, backend, now, localVars, distVars>>

\* (mutant) a capability check that every handle passes
implementsHealthCheckerAll(handle) == TRUE

\* whether a handle of that dynamic type has the Ping method of HealthChecker:
\* distributedCache and distributedGenericCache define Ping, memoryCache and
\* noOpCache do not
implementsHealthChecker(handle) == handle \in {"proto", "generic"}

\* _, ok := cache.(HealthChecker) on the handle a constructor just returned
AssertHealthChecker ==
    /\ res.op = "New" /\ res.handle # ""
    /\ res' = [res EXCEPT !.op = "HealthChecker",
                          !.found = implementsHealthChecker(res.handle)]
    /\ UNCHANGED <<arg, cfg, backend, now, localVars, distVars>>

\* the local handles NewMemory and New build
MemoryArgs ==
    [entry : {"NewMemory", "New"},
     config : [isNil : {FALSE}, Type : {"memory"}, Memory : MemoryConfigs,
               Distributed : {NilDistributedConfig}],
     isProto : {FALSE}]

\* ---------------------------------------------------------------- Init
InitLocal ==
    /\ now = 0
    /\ items = [k \in Keys |-> NoItem]
    /\ \E config \in MemoryConfigs : skipTTLExtension = NewMemory(config)
    /\ isShutDown = FALSE
    /\ lhist = [k \in Keys |-> NoHist]
    /\ noopSeen = {}
    /\ callers = [p \in 1..MaxCallers |-> Idle]
    /\ passed = {}
    /\ res = NoResult

InitDist ==
    /\ store = [k \in Keys |-> NoEntry]
    /\ reachable = TRUE
    /\ conns = [c \in 1..MaxConns |-> IF c = SharedClient THEN OpenConn ELSE NoConn]
    /\ handles = [h \in 1..MaxHandles |-> NoHandle]
    /\ dhist = [k \in Keys |-> NoDHist]

\* Config.Type picks the backend
Init ==
    /\ arg = NoArg
    /\ cfg = NilDistributedConfig
    /\ backend \in {"mem", "noop", "dist"}
    /\ InitLocal
    /\ InitDist

NextLocal ==
    \/ Tick
    \/ \E k \in Keys, live \in BOOLEAN : MemGet(k, live)
    \/ \E k \in Keys, v \in Values, ttl \in TTLs, live \in BOOLEAN : MemSet(k, v, ttl, live)
    \/ \E k \in Keys, live \in BOOLEAN : MemDelete(k, live)
    \/ MemClose
    \/ \E k \in Keys : Evict(k)

NextNoOp ==
    \/ Tick
    \/ \E k \in Keys, live \in BOOLEAN : NoOpGet(k, live)
    \/ \E k \in Keys, v \in Values, ttl \in TTLs, live \in BOOLEAN : NoOpSet(k, v, ttl, live)
    \/ \E k \in Keys, live \in BOOLEAN : NoOpDelete(k, live)
    \/ NoOpClose

\* data path: handles of every serializer on a server that answers
NextDist ==
    \/ Tick
    \/ \E config \in DataConfigs : NewDistributedGeneric(config, "")
    \/ \E config \in DataConfigs : NewDistributedForProto(config, "")
    \/ \E h \in 1..MaxHandles, k \in Keys : DGet(h, k, TRUE)
    \/ \E h \in 1..MaxHandles, k \in Keys, v \in Values, ttl \in TTLs :
          DSet(h, k, v, ttl, TRUE)
    \/ \E h \in 1..MaxHandles, k \in Keys : DDelete(h, k, TRUE)

\* connection lifecycle: construction, failures, cancellation, Close
NextConn ==
    \/ Outage
    \/ \E config \in ConnConfigs, otel \in {"", "tracing", "metrics"} :
          NewDistributedGeneric(config, otel)
    \/ \E config \in ConnConfigs, otel \in {"", "tracing", "metrics"} :
          NewDistributedForProto(config, otel)
    \/ \E h \in 1..MaxHandles, live \in BOOLEAN : DGet(h, "k1", live)
    \/ \E h \in 1..MaxHandles, live \in BOOLEAN : DSet(h, "k1", User1, 0, live)
    \/ \E h \in 1..MaxHandles, live \in BOOLEAN : DDelete(h, "k1", live)
    \/ \E h \in 1..MaxHandles : DClose(h)
    \/ \E h \in 1..MaxHandles, live \in BOOLEAN : DPing(h, live)
    \/ SharedPing
    \/ \E data \in ForeignData : ForeignWrite("k1", data)

Next ==
    \/ backend = "mem" /\ NextLocal
    \/ backend = "noop" /\ NextNoOp
    \/ backend = "dist" /\ NextDist

\* New with Type "memory", "noop", "distributed"
InitMemory == Init /\ backend = "mem"
InitNoOp == Init /\ backend = "noop"
InitDistributed == Init /\ backend = "dist"

\* before a constructor call: the call is drawn, nothing is built
InitFactory ==
    /\ arg \in Args
    /\ cfg = arg.config.Distributed
    /\ backend = ""
    /\ now = 0
    /\ items = [k \in Keys |-> NoItem]
    /\ skipTTLExtension = FALSE
    /\ isShutDown = FALSE
    /\ lhist = [k \in Keys |-> NoHist]
    /\ noopSeen = {}
    /\ callers = [p \in 1..MaxCallers |-> Idle]
    /\ passed = {}
    /\ res = NoResult
    /\ InitDist

\* the drawn call, then Set and Get on the distributed handles it built
NextFactory ==
    \/ arg.entry = "New" /\ New("")
    \/ arg.entry = "NewDistributedGeneric" /\ NewDistributedGeneric(cfg, "")
    \/ arg.entry = "NewDistributed" /\ NewDistributed(cfg, "")
    \/ arg.entry = "NewSerializer" /\ CallNewSerializer
    \/ \E h \in 1..MaxHandles : DSet(h, "k1", User1, 0, TRUE)
    \/ \E h \in 1..MaxHandles : DGet(h, "k1", TRUE)

SpecFactory == InitFactory /\ [][NextFactory]_vars

\* a local handle just built by NewMemory(config.Memory), called directly or by New
InitNewMemory ==
    /\ arg \in MemoryArgs
    /\ cfg = NilDistributedConfig
    /\ backend = "mem"
    /\ now = 0
    /\ items = [k \in Keys |-> NoItem]
    /\ skipTTLExtension = NewMemory(arg.config.Memory)
    /\ isShutDown = FALSE
    /\ lhist = [k \in Keys |-> NoHist]
    /\ noopSeen = {}
    /\ callers = [p \in 1..MaxCallers |-> Idle]
    /\ passed = {}
    /\ res = NoResult
    /\ InitDist

SpecMemory == InitNewMemory /\ [][NextLocal]_vars

\* the life of the handles a drawn constructor call builds: capability check,
\* Set (also of a value the message codec refuses), Get, Delete, Ping, Close
InitLifecycle == InitFactory /\ arg.entry # "NewSerializer"

NextLifecycle ==
    \/ arg.entry = "New" /\ New("")
    \/ arg.entry = "NewDistributedGeneric" /\ NewDistributedGeneric(cfg, "")
    \/ arg.entry = "NewDistributed" /\ NewDistributed(cfg, "")
    \/ AssertHealthChecker
    \/ \E h \in 1..MaxHandles, v \in {User1, BadUser}, live \in BOOLEAN :
          DSet(h, "k1", v, 0, live)
    \/ \E h \in 1..MaxHandles : DGet(h, "k1", TRUE)
    \/ \E h \in 1..MaxHandles : DDelete(h, "k1", TRUE)
    \/ \E h \in 1..MaxHandles : DPing(h, TRUE)
    \/ \E h \in 1..MaxHandles : DClose(h)

SpecLifecycle == InitLifecycle /\ [][NextLifecycle]_vars
SpecLocal == InitMemory /\ [][NextLocal]_vars

\* goroutines sharing one local handle, all on the key "k1"
NextConcurrent ==
    \/ \E p \in 1..MaxCallers : GoCall(p, "Get", Zero)
    \/ \E p \in 1..MaxCallers, v \in Values : GoCall(p, "Set", v)
    \/ \E p \in 1..MaxCallers : GoCall(p, "Delete", Zero)
    \/ \E p \in 1..MaxCallers : GoSelect(p)
    \/ \E p \in 1..MaxCallers : GoEngine(p, "k1")
    \/ \E p \in 1..MaxCallers : GoReturn(p)

SpecConcurrent == InitMemory /\ [][NextConcurrent]_vars
SpecNoOp == InitNoOp /\ [][NextNoOp]_vars
SpecDist == InitDistributed /\ [][NextDist]_vars
SpecConn == InitDistributed /\ [][NextConn]_vars
Spec == Init /\ [][Next]_vars

\* ================================================================ properties
Miss(r) == ~r.found /\ r.value = Zero
built(h) == handles[h].kind # "none"

\* C1: however many handles were built from a configuration that supplies the
\* caller's connection, and in whatever order they are closed, no handle's Close
\* closes that connection: it stays open, a probe on it fails only when the server
\* is down, every such handle that has not been closed still has an open
\* connection, and its Set and Delete with a live context fail only when the
\* server is down.
C1_SharedClientStaysOpen ==
    /\ conns[SharedClient].state = "open"
    /\ (res.b = "dist" /\ res.h = 0 /\ res.op = "Ping") => res.err \in {NoErr, ErrNetwork}
    /\ \A h \in 1..MaxHandles :
         (built(h) /\ handles[h].cfgClient = SharedClient /\ ~handles[h].closeCalled) =>
            /\ conns[handles[h].client].state = "open"
            /\ (res.b = "dist" /\ res.h = h /\ res.op \in {"Set", "Delete"} /\ res.live)
                  => res.err \in {NoErr, ErrNetwork}

\* two handles built with the supplied connection, the first closed, and the
\* second one's Set still succeeds
C1_Witness ==
    /\ built(1) /\ handles[1].cfgClient = SharedClient /\ handles[1].closeCalled
    /\ built(2) /\ handles[2].cfgClient = SharedClient /\ ~handles[2].closeCalled
    /\ res.b = "dist" /\ res.h = 2 /\ res.op = "Set" /\ res.err = NoErr

\* C2: a handle built with no supplied connection owns the connection it created
\* (no other handle and not the caller uses it); once Close was called on the
\* handle that connection is closed, every later Ping, Set and Delete through the
\* handle returns an error and every later Get reports a miss.
C2_OwnedClientClosed ==
    \A h \in 1..MaxHandles :
       (built(h) /\ handles[h].cfgClient = 0) =>
          /\ handles[h].client # SharedClient
          /\ \A g \in 1..MaxHandles : (g # h /\ built(g)) => handles[g].client # handles[h].client
          /\ handles[h].closeCalled =>
               /\ conns[handles[h].client].state = "closed"
               /\ (res.b = "dist" /\ res.h = h /\ res.op \in {"Ping", "Set", "Delete"})
                     => res.err # NoErr
               /\ (res.b = "dist" /\ res.h = h /\ res.op = "Get") => Miss(res)

\* a Set through a closed owning handle returned the closed-connection error
C2_Witness ==
    \E h \in 1..MaxHandles :
       /\ built(h) /\ handles[h].cfgClient = 0 /\ handles[h].closeCalled
       /\ res.b = "dist" /\ res.h = h /\ res.op = "Set" /\ res.err = ErrClosed

\* C3 (as claimed): a handle built from a configuration that supplies a connection
\* uses that connection, no new connection was created for it and nothing was
\* attached to the supplied connection.
C3_UsesSuppliedClient ==
    \A h \in 1..MaxHandles :
       (built(h) /\ handles[h].cfgClient # 0) =>
          /\ handles[h].client = handles[h].cfgClient
          /\ ~conns[handles[h].cfgClient].tracing
          /\ ~conns[handles[h].cfgClient].metrics

\* C4: on a local handle that is not closed, a Get with a live context, issued
\* when no earlier Get hit of the key has extended its ttl, finds the key
\* exactly when the most recent Set or Delete of the key was a Set whose ttl has
\* not elapsed (a ttl of 0 never elapses), and then returns that Set's value.
C4_LocalGetSeesLastWrite ==
    (res.b = "mem" /\ res.op = "Get" /\ res.live /\ ~isShutDown
        /\ (skipTTLExtension \/ ~res.prior)) =>
       LET hs == lhist[res.key]
       IN /\ (hs.op = "set" /\ (hs.ttl = 0 \/ res.at < hs.at + hs.ttl))
                => (res.found /\ res.value = hs.value)
          /\ (hs.op # "set" \/ (hs.ttl > 0 /\ res.at > hs.at + hs.ttl)) => Miss(res)
          /\ res.found => (hs.op = "set" /\ res.value = hs.value)

\* a Get at a later time than the Set returned the value of the last Set
C4_Witness ==
    /\ res.b = "mem" /\ res.op = "Get" /\ res.live /\ ~res.prior
    /\ res.found /\ res.value = User2
    /\ lhist[res.key].ttl > 0 /\ res.at > lhist[res.key].at

\* the time at which the ttl of the most recent write of a key has not elapsed
notElapsed(hs) == hs.ttl = 0 \/ now < hs.at + hs.ttl
elapsed(hs) == hs.ttl > 0 /\ now > hs.at + hs.ttl

\* the handles the round trip is promised for: the message codec, the built-in
\* JSON and gob serializers, and the custom serializer written to restore its input
roundTrips(h) ==
    \/ handles[h].kind = "proto"
    \/ handles[h].serializer \in {"json", "gob", "reverse"}

C6_MissOnAbsence ==
    res.op = "Get" =>
       /\ (res.b = "mem" /\ lhist[res.key].op \in {"none", "del"}) => Miss(res)
       /\ (res.b = "dist" /\ dhist[res.key].op \in {"none", "del"}) => Miss(res)
       /\ res.b = "noop" => Miss(res)

\* a structured-payload handle read a key right after it was deleted
C6_Witness ==
    /\ res.b = "dist" /\ res.op = "Get" /\ handles[res.h].kind = "proto"
    /\ dhist[res.key].op = "del"

\* C7 (as claimed): on a local handle that is not closed, Delete with a live
\* context returns no error, whether or not the key is there.
C7_LocalDeleteAbsentOk ==
    (res.b = "mem" /\ res.op = "Delete" /\ res.live /\ ~isShutDown) => res.err = NoErr

\* C8: on a distributed handle whose connection is open, with a live context and
\* a server that answers, Delete returns no error whether or not the key was
\* there, and leaves the key absent: a second Delete leaves what the first left.
C8_DistDeleteIdempotent ==
    (res.b = "dist" /\ res.op = "Delete" /\ res.live
        /\ res.err \notin {ErrClosed, ErrNetwork}) =>
       /\ res.err = NoErr
       /\ store[res.key] = NoEntry

\* a Delete of a key that was already deleted returned no error
C8_Witness ==
    /\ res.b = "dist" /\ res.op = "Delete" /\ ~res.found /\ res.err = NoErr
    /\ dhist[res.key].op = "del"

\* C9, local part shared by the claim and its amendment: a live Get of a key whose
\* most recent write is a Set with a positive ttl
localTTLGet ==
    /\ res.b = "mem" /\ res.op = "Get" /\ res.live /\ ~isShutDown
    /\ lhist[res.key].op = "set" /\ lhist[res.key].ttl > 0

\* C9, distributed part: a key whose most recent write is a Set with a positive
\* ttl is found by the handle that set it before the ttl has elapsed, and by no
\* handle after
distTTL ==
    \A k \in Keys :
       (dhist[k].op = "set" /\ dhist[k].ttl > 0) =>
          /\ now < dhist[k].at + dhist[k].ttl => distGet(dhist[k].by, k, TRUE).found
          /\ elapsed(dhist[k]) =>
                \A h \in 1..MaxHandles : built(h) => ~distGet(h, k, TRUE).found

\* C9 (as claimed): the entry is found before its ttl has elapsed since the Set
\* and never after, also on a local handle that extends the ttl on a hit.
C9_ExpiryAlways ==
    /\ localTTLGet =>
          LET hs == lhist[res.key]
          IN /\ res.at < hs.at + hs.ttl => res.found
             /\ res.at > hs.at + hs.ttl => ~res.found
    /\ distTTL

\* C9 (amended): never after, unless the local handle extends the ttl on a hit
\* and a Get hit of the key came later than the Set.
C9_Expiry ==
    /\ localTTLGet =>
          LET hs == lhist[res.key]
          IN /\ res.at < hs.at + hs.ttl => res.found
             /\ (res.at > hs.at + hs.ttl /\ (skipTTLExtension \/ ~res.prior)) => ~res.found
    /\ distTTL

\* a local handle that extends the ttl on a hit, one hit at the time of the Set,
\* and a Get after the ttl that misses
C9_Witness ==
    /\ localTTLGet /\ ~skipTTLExtension /\ ~res.prior
    /\ res.at > lhist[res.key].at + lhist[res.key].ttl /\ ~res.found

\* C10: whatever was asked of a no-op handle before, its Get misses, its Set,
\* Delete and Close return no error, and nothing is stored anywhere.
C10_NoOp ==
    res.b = "noop" =>
       /\ res.op = "Get" => Miss(res)
       /\ res.op \in {"Set", "Delete", "Close"} => res.err = NoErr
       /\ items = [k \in Keys |-> NoItem]
       /\ store = [k \in Keys |-> NoEntry]

\* a Get of a key after a Set of that key and a Close
C10_Witness ==
    /\ res.b = "noop" /\ res.op = "Get" /\ ~res.found
    /\ <<"Set", res.key>> \in noopSeen
    /\ <<"Close", "">> \in noopSeen

\* ---------------------------------------------------------------- C11..C20
\* C11: on the local backend an operation given an already cancelled context
\* leaves the engine untouched (no entry added, removed or refreshed); Get then
\* returns the zero value and false, Set and Delete the cancellation error.
C11_LocalCancelled ==
    [][(res'.b = "mem" /\ ~res'.live /\ res' # res) =>
          /\ items' = items
          /\ isShutDown' = isShutDown
          /\ res'.op = "Get" => Miss(res') /\ res'.err = NoErr
          /\ res'.op \in {"Set", "Delete"} => res'.err = ErrCanceled]_vars

\* a cancelled Delete of a key that is stored and not expired
C11_Witness ==
    /\ res.b = "mem" /\ res.op = "Delete" /\ ~res.live
    /\ ~isShutDown /\ items[res.key].present /\ ~expired(items[res.key])

\* C12 (as claimed): on every backend, Get with a cancelled context reports a
\* miss and Set and Delete with a cancelled context return the cancellation error.
C12_CancelledEverywhere ==
    ~res.live =>
       /\ res.op = "Get" => Miss(res)
       /\ res.op \in {"Set", "Delete"} => res.err = ErrCanceled

\* C13: a Get on a distributed handle returns no error and leaves the store as
\* it was; when the fetch fails (absent or expired key, server down, closed
\* client, cancelled context) or the bytes do not decode it returns the zero
\* value and false, and otherwise the decoded value and true.
C13_DistGetNeverFails ==
    [][(res'.b = "dist" /\ res'.op = "Get" /\ res' # res) =>
          LET h == res'.h
              k == res'.key
              failed == \/ redisErr(handles[h].client, res'.live) # NoErr
                        \/ ~alive(store[k])
                        \/ decode(h, store[k].data).err
          IN /\ res'.err = NoErr
             /\ store' = store
             /\ failed => Miss(res')
             /\ ~failed => res'.found /\ res'.value = decode(h, store[k].data).value]_vars

\* a JSON handle read bytes whose decoding failed after it had filled the ID
C13_Witness ==
    /\ res.b = "dist" /\ res.op = "Get" /\ res.cause = "decode"
    /\ handles[res.h].serializer = "json"
    /\ dhist[res.key].op = "foreign"
    /\ decode(res.h, store[res.key].data).value # Zero

\* C14: what New returns is decided by the configuration: nil configuration,
\* and kind distributed with a nil Distributed part, give no handle and "config
\* cannot be nil"; kind memory gives a local handle (also with a nil Memory
\* part); kind noop a no-op handle; any other kind K gives no handle and
\* "unknown cache type: K".
C14_FactoryTable ==
    (arg.entry = "New" /\ res.op = "New") =>
       LET config == arg.config
       IN /\ config.isNil =>
                res.handle = "" /\ res.err = "config cannot be nil"
          /\ (~config.isNil /\ config.Type = "memory") =>
                res.handle = "memory" /\ res.err = NoErr
          /\ (~config.isNil /\ config.Type = "noop") =>
                res.handle = "noop" /\ res.err = NoErr
          /\ (~config.isNil /\ config.Type = "distributed" /\ config.Distributed.isNil) =>
                res.handle = "" /\ res.err = "config cannot be nil"
          /\ (~config.isNil /\ config.Type \notin {"memory", "noop", "distributed"}) =>
                res.handle = "" /\ res.err = "unknown cache type: " \o config.Type

\* New was asked for a kind it does not know
C14_Witness ==
    /\ arg.entry = "New" /\ res.op = "New"
    /\ ~arg.config.isNil /\ arg.config.Type = "redis"
    /\ res.err = "unknown cache type: redis"

\* C15: for kind distributed, every handle New builds is the structured-payload
\* variant (no serializer) exactly when the element type is a proto.Message,
\* and the generic variant (with a serializer) exactly when it is not.
C15_DetectorDecides ==
    arg.entry = "New" =>
       /\ \A h \in 1..MaxHandles : built(h) =>
              /\ handles[h].kind = (IF arg.isProto THEN "proto" ELSE "generic")
              /\ (handles[h].serializer = "") = arg.isProto
       /\ (res.op = "New" /\ res.err = NoErr /\ arg.config.Type = "distributed") =>
              res.handle = (IF arg.isProto THEN "proto" ELSE "generic")

\* New built a handle for a proto.Message type from a configuration naming JSON
C15_Witness ==
    /\ arg.entry = "New" /\ arg.isProto
    /\ arg.config.Distributed.SerializationType = "json"
    /\ res.op = "New" /\ res.handle = "proto"

\* whether a configuration names JSON or gob or carries a custom serializer,
\* and the serializer it asks for
explicit(config) ==
    ~config.isNil /\ (config.Serializer # "" \/ config.SerializationType \in {"json", "gob"})
wanted(config) ==
    IF config.Serializer # "" THEN config.Serializer ELSE config.SerializationType

\* the handles built from the configuration are generic handles with the
\* serializer it asks for, and what they stored was written by that serializer
usesWanted ==
    /\ \A h \in 1..MaxHandles : built(h) =>
           /\ handles[h].kind = "generic"
           /\ handles[h].serializer = wanted(arg.config.Distributed)
    /\ \A k \in Keys : dhist[k].op = "set" =>
           /\ store[k].data = Serialize(wanted(arg.config.Distributed), dhist[k].value)
           /\ distGet(dhist[k].by, k, TRUE).value =
                 Deserialize(wanted(arg.config.Distributed), store[k].data).value

C17_NewSerializerTable ==
    (arg.entry = "NewSerializer" /\ res.op = "NewSerializer") =>
       LET t == arg.config.Distributed.SerializationType
       IN /\ t \in {"json", "gob"} => res.handle = t /\ res.err = NoErr
          /\ t = "protobuf" =>
                /\ res.handle = ""
                /\ res.err =
                      "protobuf serialization requires special handling - use NewDistributed"
          /\ t \notin {"json", "gob", "protobuf"} =>
                res.handle = "" /\ res.err = "unknown serialization type"

\* NewSerializer was asked for the empty kind
C17_Witness ==
    /\ arg.entry = "NewSerializer" /\ res.op = "NewSerializer"
    /\ arg.config.Distributed.SerializationType = ""
    /\ res.err # NoErr

\* the serializer the generic constructor is to resolve from a configuration
\* ("" when it has to fail)
resolved(config) ==
    IF config.Serializer # "" THEN config.Serializer
    ELSE IF config.SerializationType = "" THEN "json"
    ELSE IF config.SerializationType \in {"json", "gob"} THEN config.SerializationType
    ELSE ""

\* C18: the generic constructor uses the configuration's custom serializer when
\* there is one, whatever the named kind, and without an error from the kind;
\* otherwise the serializer of the named kind; otherwise, for the empty kind,
\* JSON. Every value a handle stores and reads goes through that serializer.
C18_SerializerResolution ==
    (/\ \/ arg.entry = "NewDistributedGeneric"
        \/ arg.entry = "New" /\ ~arg.config.isNil /\ arg.config.Type = "distributed"
              /\ ~arg.isProto
     /\ ~arg.config.Distributed.isNil) =>
       LET want == resolved(arg.config.Distributed)
       IN /\ res.op = "New" => (res.err = NoErr) = (want # "")
          /\ \A h \in 1..MaxHandles : built(h) =>
                 handles[h].kind = "generic" /\ handles[h].serializer = want
          /\ \A k \in Keys : dhist[k].op = "set" =>
                 /\ store[k].data = Serialize(want, dhist[k].value)
                 /\ distGet(dhist[k].by, k, TRUE).value =
                       Deserialize(want, store[k].data).value

\* a handle built from a configuration with a custom serializer and the
\* protobuf kind stored a value
C18_Witness ==
    /\ arg.entry = "NewDistributedGeneric"
    /\ arg.config.Distributed.Serializer = "reverse"
    /\ arg.config.Distributed.SerializationType = "protobuf"
    /\ dhist["k1"].op = "set"

C20_ConnectionDefaults ==
    \A c \in (1..MaxConns) \ {SharedClient} :
       (arg.entry \in {"New", "NewDistributed", "NewDistributedGeneric"}
           /\ conns[c].state # "none") =>
          LET d == arg.config.Distributed
              o == conns[c].options
          IN /\ o.PoolSize = (IF d.PoolSize = 0 THEN 10 ELSE d.PoolSize)
             /\ o.MinIdleConns = (IF d.MinIdleConns = 0 THEN 5 ELSE d.MinIdleConns)
             /\ o.MaxRetries = (IF d.MaxRetries = 0 THEN 3 ELSE d.MaxRetries)
             /\ o.DialTimeout = (IF d.DialTimeout = 0 THEN 5 ELSE d.DialTimeout)
             /\ o.ReadTimeout = (IF d.ReadTimeout = 0 THEN 3 ELSE d.ReadTimeout)
             /\ o.WriteTimeout = (IF d.WriteTimeout = 0 THEN 3 ELSE d.WriteTimeout)
             /\ conns[c].probeTimeout = o.DialTimeout

\* New built a structured-payload handle from a configuration that sets the
\* pool size and the read timeout and leaves the other four fields at 0
C20_Witness ==
    /\ arg.entry = "New" /\ arg.isProto
    /\ arg.config.Distributed.PoolSize = 20 /\ arg.config.Distributed.ReadTimeout = 1
    /\ arg.config.Distributed.DialTimeout = 0 /\ arg.config.Distributed.MaxRetries = 0
    /\ arg.config.Distributed.MinIdleConns = 0 /\ arg.config.Distributed.WriteTimeout = 0
    /\ \E h \in 1..MaxHandles : built(h) /\ conns[handles[h].client].probeTimeout = 5

\* C21: on a local handle built without asking for TTL extension (no
\* MemoryConfig, or a MemoryConfig whose SkipTTLExtensionOnHit is false), a Get
\* made after the TTL given to the last Set has run out misses, whatever hits
\* came in between.
C21_NoRefreshByDefault ==
    (arg.config.Memory.isNil \/ ~arg.config.Memory.SkipTTLExtensionOnHit) =>
       ((localTTLGet /\ res.at > lhist[res.key].at + lhist[res.key].ttl) => ~res.found)

\* C22: the capability check for HealthChecker succeeds on exactly the handles
\* of the distributed family and fails on the local and the no-op handle; Ping
\* with a live context on a distributed handle whose connection is open, while
\* the store is reachable, returns no error.
C22_PingCapability ==
    /\ [](res.op = "HealthChecker" =>
            /\ res.found = (res.b = "dist")
            /\ res.found = (res.handle \in {"proto", "generic"})
            /\ res.handle \in {"memory", "noop"} => ~res.found)
    /\ [][(/\ res'.op = "Ping" /\ res'.h # 0 /\ res'.live
           /\ UNCHANGED <<conns, handles, reachable>>
           /\ reachable
           /\ handles[res'.h].client # 0
           /\ conns[handles[res'.h].client].state = "open") => res'.err = NoErr]_vars

\* the check was made on a local handle New returned, and failed
C22_Witness ==
    /\ res.op = "HealthChecker" /\ res.handle = "memory" /\ ~res.found
    /\ arg.entry = "New" /\ arg.config.Type = "memory"

\* C23: over any sequence of Close calls on the handles of one owned
\* connection, Close of that connection is called at most once.
C23_ConnClosedOnce ==
    \A c \in (1..MaxConns) \ {SharedClient} : conns[c].closeCalls <= 1

\* C24: Close on a local handle returns no error, on the first call and on
\* every later one.
C24_LocalCloseNoError ==
    (res.b = "mem" /\ res.op = "Close") => res.err = NoErr

\* C25: a connection that a distributed constructor created and did not hand
\* out in a handle (instrumentation or the probe failed) is closed by the time
\* the constructor returns: every open connection other than the caller's
\* shared client belongs to a handle.
C25_FailedConstructorCloses ==
    \A c \in (1..MaxConns) \ {SharedClient} :
       conns[c].state = "open" => \E h \in 1..MaxHandles : built(h) /\ handles[h].client = c

\* C26: a connection a distributed constructor created has tracing attached
\* exactly when the configuration has EnableTracing, and metrics exactly when
\* it has EnableMetrics.
C26_InstrumentationIndependent ==
    \A c \in (1..MaxConns) \ {SharedClient} :
       conns[c].state # "none" =>
          /\ conns[c].tracing = arg.config.Distributed.EnableTracing
          /\ conns[c].metrics = arg.config.Distributed.EnableMetrics

\* the configuration object o with 10, 5, 3, 5s, 3s, 3s in those of the six
\* pool and timeout fields that are 0, and every other field as it is
sixDefaults(o) ==
    [o EXCEPT !.PoolSize = IF @ = 0 THEN 10 ELSE @,
              !.MinIdleConns = IF @ = 0 THEN 5 ELSE @,
              !.MaxRetries = IF @ = 0 THEN 3 ELSE @,
              !.DialTimeout = IF @ = 0 THEN 5 ELSE @,
              !.ReadTimeout = IF @ = 0 THEN 3 ELSE @,
              !.WriteTimeout = IF @ = 0 THEN 3 ELSE @]

\* C27: the configuration object the caller holds is, at every moment, either
\* as the caller filled it in or that with the six defaultable fields that were
\* zero set to their defaults; it is the latter as soon as a distributed
\* constructor got past its nil check, also when the constructor then fails on
\* the serializer; only a distributed constructor changes it (no Get, Set,
\* Delete, Ping or Close does); and all connections built from it have the same
\* pool and timeout parameters.
C27_ConfigWrites ==
    /\ [](LET o == arg.config.Distributed
          IN /\ cfg \in {o, sixDefaults(o)}
             /\ (res.op = "New" /\ res.b = "dist" /\ ~o.isNil) => cfg = sixDefaults(o)
             /\ \A c1, c2 \in (1..MaxConns) \ {SharedClient} :
                   (conns[c1].state # "none" /\ conns[c2].state # "none") =>
                      conns[c1].options = conns[c2].options)
    /\ [][cfg' # cfg => (res'.op = "New" /\ res'.b = "dist" /\ res' # res)]_vars

\* two handles were built one after the other from one configuration object
\* that had a pool size and a dial timeout and zeros elsewhere; the object now
\* holds the defaults and one of the handles has been closed
C27_Witness ==
    /\ arg.config.Distributed.PoolSize = 20 /\ arg.config.Distributed.DialTimeout = 1
    /\ arg.config.Distributed.ReadTimeout = 0
    /\ cfg # arg.config.Distributed /\ cfg.ReadTimeout = 3 /\ cfg.PoolSize = 20
    /\ \A h \in 1..MaxHandles : built(h)
    /\ conns[handles[1].client].options = conns[handles[2].client].options
    /\ handles[1].client # handles[2].client
    /\ res.op = "Close"

\* C30: a distributed constructor returns either a handle and no error or no
\* handle and an error; it registers a handle only in the first case, and then
\* the store was reachable and the handle's connection is one whose probe
\* succeeded.
C30_HandleOrError ==
    /\ [](res.op = "New" => (res.handle # "") = (res.err = NoErr))
    /\ [](\A h \in 1..MaxHandles :
             (built(h) /\ handles[h].client # 0) => conns[handles[h].client].probe = "ok")
    /\ [][(res'.op = "New" /\ res'.err # NoErr) => handles' = handles]_vars
    /\ [][(res'.op = "New" /\ handles' # handles) =>
             /\ reachable
             /\ res'.err = NoErr
             /\ handles[res'.h].kind = "none"
             /\ handles'[res'.h].kind = res'.handle
             /\ conns'[handles'[res'.h].client].state = "open"
             /\ conns'[handles'[res'.h].client].probe = "ok"]_vars

\* a constructor failed on the probe after another had returned a handle
C30_Witness ==
    /\ res.op = "New" /\ res.err = ErrNetwork /\ res.handle = ""
    /\ \E h \in 1..MaxHandles : built(h) /\ conns[handles[h].client].probe = "ok"
    /\ \E c \in 1..MaxConns : conns[c].probe = "failed"

\* C28: Set on a distributed handle returns the encoder's error when encoding
\* the value fails, otherwise the error of the store write (closed client,
\* cancelled context, unreachable store), otherwise none; when it returns an
\* error the store is as before, so an entry written earlier is still there;
\* when it returns none the key holds the encoded value.
C28_SetErrors ==
    [][res'.op = "Set" =>
         LET h == res'.h
             v == res'.value
             c == handles[h].client
             encodeFails == handles[h].kind = "proto" /\ (v.ID = "<ff>" \/ v.Name = "<ff>")
             writeErr == IF conns[c].state # "open" THEN ErrClosed
                         ELSE IF ~res'.live THEN ErrCanceled
                         ELSE IF ~reachable THEN ErrNetwork
                         ELSE NoErr
         IN  c # 0 =>
               /\ res'.err = (IF encodeFails THEN ErrInvalidUTF8 ELSE writeErr)
               /\ (res'.err # NoErr) = (encodeFails \/ writeErr # NoErr)
               /\ res'.err # NoErr => store' = store
               /\ res'.err = NoErr =>
                     /\ store'[res'.key].present
                     /\ store'[res'.key].data =
                           (IF handles[h].kind = "proto" THEN protoMarshal(v)
                            ELSE Serialize(handles[h].serializer, v))]_vars

\* a message handle's Set of a value with an invalid string failed in the
\* encoder, and the entry stored before is still in the store
C28_Witness ==
    /\ res.op = "Set" /\ res.err = ErrInvalidUTF8 /\ res.value = BadUser
    /\ handles[res.h].kind = "proto"
    /\ conns[handles[res.h].client].state = "open"
    /\ dhist["k1"].op = "set" /\ dhist["k1"].value = User1
    /\ store["k1"].present /\ store["k1"].data = protoMarshal(User1)

\* C29: a Set or Delete on one key, by any handle, leaves everything a Get of
\* another key depends on as it was: the store's entry of every other key, the
\* handles with their serializers and the connections; so every handle's Get
\* of every other key returns what it returned before (in particular for two
\* generic handles with different serializers on one store).
C29_OtherKeysUntouched ==
    [][(res'.op \in {"Set", "Delete"} /\ now' = now) =>
         /\ \A k2 \in Keys \ {res'.key} : store'[k2] = store[k2]
         /\ handles' = handles /\ conns' = conns /\ reachable' = reachable]_vars

\* two generic handles with different serializers each stored a value under a
\* key of its own, the second after the first, and both read back
C29_Witness ==
    /\ built(1) /\ built(2)
    /\ handles[1].kind = "generic" /\ handles[2].kind = "generic"
    /\ handles[1].serializer = "json" /\ handles[2].serializer = "gob"
    /\ dhist["k1"].op = "set" /\ dhist["k1"].by = 1
    /\ dhist["k2"].op = "set" /\ dhist["k2"].by = 2
    /\ res.op = "Set" /\ res.key = "k2" /\ res.err = NoErr
    /\ distGet(1, "k1", TRUE).found /\ distGet(1, "k1", TRUE).value = dhist["k1"].value
    /\ distGet(2, "k2", TRUE).found

\* a distributed configuration the generic constructor refuses: absent, or
\* without a custom serializer and of a kind that is protobuf or unknown
refused(d) ==
    \/ d.isNil
    \/ d.Serializer = "" /\ d.SerializationType \notin {"", "json", "gob"}

\* the call under study goes to the generic distributed constructor
toGeneric ==
    \/ arg.entry = "NewDistributedGeneric"
    \/ arg.entry = "New" /\ ~arg.config.isNil /\ arg.config.Type = "distributed"
          /\ ~arg.isProto

\* C31: when the generic distributed constructor is given a configuration it
\* refuses (absent, unknown serialization kind, protobuf kind without a custom
\* serializer), every call returns the configuration error and no handle, and
\* at no moment does a connection other than the caller's own exist, open or
\* closed, probed or not; the step that reports such an error leaves the
\* connections, the handles and the store as they were.
C31_ConfigErrorsBeforeConnecting ==
    /\ []((toGeneric /\ refused(arg.config.Distributed)) =>
            /\ res.op = "New" =>
                  /\ res.handle = ""
                  /\ res.err = (IF arg.config.Distributed.isNil THEN ErrConfigNil
                                ELSE IF arg.config.Distributed.SerializationType = "protobuf"
                                  THEN ErrProtoKind
                                ELSE ErrUnknownKind)
            /\ \A c \in (1..MaxConns) \ {SharedClient} : conns[c] = NoConn
            /\ \A h \in 1..MaxHandles : ~built(h)
            /\ \A k \in Keys : store[k] = NoEntry)
    /\ [][(res'.op = "New" /\ res'.err \in {ErrConfigNil, ErrProtoKind, ErrUnknownKind}) =>
             (conns' = conns /\ handles' = handles /\ store' = store)]_vars

\* NewDistributedGeneric was asked for the protobuf kind without a custom
\* serializer and returned the error; the defaults are in the object
C31_Witness ==
    /\ arg.entry = "NewDistributedGeneric"
    /\ ~arg.config.Distributed.isNil
    /\ arg.config.Distributed.SerializationType = "protobuf"
    /\ arg.config.Distributed.Serializer = ""
    /\ res.op = "New" /\ res.err = ErrProtoKind /\ res.handle = ""
    /\ cfg.PoolSize = 10

\* C32: with goroutines sharing one local handle and racing on one key, a Get
\* that is about to return gives either a miss (the zero value, not found) or,
\* as found, a value that some goroutine has passed to Set; and whenever no
\* call is in progress the key holds the effect of the write the engine
\* applied last: the value of that Set, or nothing after a Delete or before
\* any write.
C32_ConcurrentLastWriteWins ==
    /\ \A p \in 1..MaxCallers :
          (callers[p].pc = "return" /\ callers[p].op = "Get") =>
             \/ callers[p].out = NoOut
             \/ /\ callers[p].out.found /\ callers[p].out.err = NoErr
                /\ callers[p].out.value \in passed
    /\ (\A p \in 1..MaxCallers : callers[p].pc = "idle") =>
          /\ lhist["k1"].op = "set" =>
                items["k1"].present /\ items["k1"].data = lhist["k1"].value
          /\ lhist["k1"].op \in {"del", "none"} => ~items["k1"].present

\* a Get is about to return the value of the first Set while a second Set,
\* applied after the Get read the key, has already replaced it
C32_Witness ==
    /\ callers[1].pc = "return" /\ callers[1].op = "Get"
    /\ callers[1].out.found /\ callers[1].out.value = User1
    /\ callers[2].pc = "return" /\ callers[2].op = "Set" /\ callers[2].value = User2
    /\ callers[2].out.err = NoErr
    /\ items["k1"].present /\ items["k1"].data = User2
    /\ passed = {User1, User2}
====
